---- MODULE Spec2Model ----
(***************************************************************************)
(* Model of grex_nc_dump_test (src/src/lib.rs): the Payload frame and its  *)
(* zero-copy (2, CHANNELS, 2) view, the DumpRing ring buffer (new, push,   *)
(* consecutive_views) and DumpRing::dump, the export through the netcdf    *)
(* adapter.                                                                *)
(***************************************************************************)
EXTENDS Integers, Sequences, FiniteSets, TLC

(***************************************************************************)
(* Bounds of the model.                                                    *)
(***************************************************************************)
\* Largest capacity handed to DumpRing::new.
MaxCap == 4
\* Largest number of push calls in one run.
MaxPush == 6
\* Largest chunk_size handed to dump.
MaxChunk == 2
\* lib.rs:6 fixes CHANNELS = 2048.  Every use of it in the source is uniform
\* in its value (array lengths, the shape and strides of the view), so the
\* model runs the same arithmetic over a small number of channels.
CHANNELS == 2

(***************************************************************************)
(* u64, as four 16-bit limbs, least significant first (the packet count    *)
(* and DumpRing::oldest are u64 and the model checker's integers are       *)
(* narrower than that).                                                    *)
(***************************************************************************)
LimbBase == 2^16

U64_MAX == <<LimbBase - 1, LimbBase - 1, LimbBase - 1, LimbBase - 1>>

U64FromNat(n) == <<n % LimbBase, (n \div LimbBase) % LimbBase, 0, 0>>

\* x + 1 modulo 2^64: what `+ 1` computes when overflow checks are off.
WrappingAdd1(x) ==
    IF x[1] < LimbBase - 1 THEN <<x[1] + 1, x[2], x[3], x[4]>>
    ELSE IF x[2] < LimbBase - 1 THEN <<0, x[2] + 1, x[3], x[4]>>
    ELSE IF x[3] < LimbBase - 1 THEN <<0, 0, x[3] + 1, x[4]>>
    ELSE IF x[4] < LimbBase - 1 THEN <<0, 0, 0, x[4] + 1>>
    ELSE <<0, 0, 0, 0>>

\* Whether x + 1 leaves the range of u64.
Add1Overflows(x) == x = U64_MAX

\* Byte i (0..7) of x in memory.
U64Byte(x, i) ==
    IF i % 2 = 0 THEN x[(i \div 2) + 1] % 256 ELSE x[(i \div 2) + 1] \div 256

(***************************************************************************)
(* Option<T>                                                               *)
(***************************************************************************)
None == <<>>
Some(v) == <<v>>
is_none(o) == o = <<>>
unwrap(o) == o[1]

(***************************************************************************)
(* i8 and its byte                                                         *)
(***************************************************************************)
\* The byte that holds the i8 value v.
I8ToByte(v) == (v + 256) % 256
\* The i8 read from byte b (the transmute of the pointer to *const i8).
ByteToI8(b) == IF b >= 128 THEN b - 256 ELSE b

(***************************************************************************)
(* Payload: #[repr(C)] struct { count: u64, pol_a, pol_b: [Complex<i8>;    *)
(* CHANNELS] }.  Complex<i8> is #[repr(C)] { re, im }.                     *)
(***************************************************************************)
\* A sample value that differs at every position of every payload used here.
SampleValue(count, pol, ch, reim) ==
    (((count[1] % 16) * 4 * CHANNELS + pol * 2 * CHANNELS + ch * 2 + reim) % 256) - 128

\* A payload with packet count `count` and known per-sample values.
Payload(count) ==
    [count |-> count,
     pol_a |-> [ch \in 1..CHANNELS |->
                  [re |-> SampleValue(count, 0, ch - 1, 0),
                   im |-> SampleValue(count, 0, ch - 1, 1)]],
     pol_b |-> [ch \in 1..CHANNELS |->
                  [re |-> SampleValue(count, 1, ch - 1, 0),
                   im |-> SampleValue(count, 1, ch - 1, 1)]]]

\* Field offsets of the repr(C) struct: count at 0, pol_a after the 8 bytes
\* of count, pol_b after the 2 * CHANNELS bytes of pol_a (alignment 1).
OffsetOfPolA == 8
OffsetOfPolB == OffsetOfPolA + 2 * CHANNELS
SizeOfPayload == OffsetOfPolB + 2 * CHANNELS

\* The bytes of a Payload in memory, by offset from the start of the struct.
PayloadBytes(pl) ==
    [o \in 0..(SizeOfPayload - 1) |->
        IF o < OffsetOfPolA THEN U64Byte(pl.count, o)
        ELSE IF o < OffsetOfPolB
             THEN LET c == pl.pol_a[((o - OffsetOfPolA) \div 2) + 1]
                  IN  I8ToByte(IF (o - OffsetOfPolA) % 2 = 0 THEN c.re ELSE c.im)
             ELSE LET c == pl.pol_b[((o - OffsetOfPolB) \div 2) + 1]
                  IN  I8ToByte(IF (o - OffsetOfPolB) % 2 = 0 THEN c.re ELSE c.im)]

\* Indices of a (2, CHANNELS, 2) tensor.
TensorIdx == (0..1) \X (0..(CHANNELS - 1)) \X (0..1)

\* Mutant: column-major strides.
ViewStridesFortran == <<1, 2, 2 * CHANNELS>>

\* The strides from_shape_ptr gives the shape (2, CHANNELS, 2): row-major.
ViewStrides == <<CHANNELS * 2, 2, 1>>

\* let raw_ptr = self.pol_a.as_ptr();
raw_ptr == OffsetOfPolA

\* Payload::as_ndarray_data_view: the element at idx is the i8 at
\* raw_ptr + idx . strides of the payload's own memory.
as_ndarray_data_view(pl) ==
    LET mem == PayloadBytes(pl)
    IN  [idx \in TensorIdx |->
            ByteToI8(mem[raw_ptr + idx[1] * ViewStrides[1]
                                 + idx[2] * ViewStrides[2]
                                 + idx[3] * ViewStrides[3]])]

\* One slot of Array::zeros((capacity, 2, CHANNELS, 2)).
ZeroSlot == [idx \in TensorIdx |-> 0]

(***************************************************************************)
(* State                                                                   *)
(***************************************************************************)
VARIABLES
    capacity,    \* DumpRing.capacity
    buffer,      \* DumpRing.buffer: slot t of axis 0 is buffer[t + 1]
    write_ptr,   \* DumpRing.write_ptr
    oldest,      \* DumpRing.oldest: Option<u64>
    full,        \* DumpRing.full
    panicked,    \* a push has panicked (overflow checks on)
    pushed,      \* history: the payloads handed to push, in order
    ret,         \* what the last call returned
    adapter_log  \* the calls the last dump made on the netcdf adapter

ring == <<capacity, buffer, write_ptr, oldest, full>>
vars == <<capacity, buffer, write_ptr, oldest, full, panicked, pushed, ret, adapter_log>>

\* Return values.
Unit == [kind |-> "unit"]
Views(a, b) == [kind |-> "views", a |-> a, b |-> b]
Ok == [kind |-> "ok"]
Err(e) == [kind |-> "err", error |-> e]

(***************************************************************************)
(* DumpRing::new                                                           *)
(***************************************************************************)
new(cap) ==
    /\ capacity = cap
    /\ buffer = [t \in 1..cap |-> ZeroSlot]
    /\ write_ptr = 0
    /\ full = FALSE
    /\ oldest = None

Init ==
    /\ \E cap \in 1..MaxCap : new(cap)
    /\ panicked = FALSE
    /\ pushed = <<>>
    /\ ret = Unit
    /\ adapter_log = <<>>

(***************************************************************************)
(* DumpRing::push                                                          *)
(***************************************************************************)
\* Mutant: the slot is chosen with the pointer already moved.
push_assign_after_move(pl) ==
    [buffer EXCEPT ![((write_ptr + 1) % capacity) + 1] = as_ndarray_data_view(pl)]

\* self.buffer.slice_mut(s![self.write_ptr, .., .., ..]).assign(&data_view)
push_assign(pl) ==
    [buffer EXCEPT ![write_ptr + 1] = as_ndarray_data_view(pl)]

\* Mutant: the pointer is not moved by the push that finds the ring empty.
push_write_ptr_after_return ==
    IF is_none(oldest) THEN write_ptr ELSE (write_ptr + 1) % capacity

\* self.write_ptr = (self.write_ptr + 1) % self.capacity
push_write_ptr == (write_ptr + 1) % capacity

\* if self.oldest.is_none() { self.oldest = Some(pl.count); return; }
push_returns_early == is_none(oldest)

\* if self.full { self.oldest = Some(self.oldest.unwrap() + 1); }
push_oldest ==
    IF full THEN Some(WrappingAdd1(unwrap(oldest))) ELSE oldest

\* Mutant: full is set by the second push, wrapped or not.
push_full_early == TRUE

\* if self.write_ptr == 0 && !self.full { self.full = true; }
\* (self.write_ptr is the pointer already moved)
push_full == IF push_write_ptr = 0 /\ ~full THEN TRUE ELSE full

\* push(&mut self, pl).  `overflow_checks` is the build's setting: with it,
\* `self.oldest.unwrap() + 1` panics at u64::MAX (the slot is written and the
\* pointer moved by then); without it, the sum wraps to 0.  `pushed` records
\* the call, and the return value and adapter record of an earlier call are
\* dropped.
push(pl, overflow_checks) ==
    /\ ~panicked
    /\ Len(pushed) < MaxPush
    /\ pushed' = Append(pushed, pl)
    /\ buffer' = push_assign(pl)
    /\ write_ptr' = push_write_ptr
    /\ IF push_returns_early
       THEN /\ oldest' = Some(pl.count)
            /\ UNCHANGED <<full, panicked>>
       ELSE IF full /\ Add1Overflows(unwrap(oldest)) /\ overflow_checks
       THEN /\ panicked' = TRUE
            /\ UNCHANGED <<oldest, full>>
       ELSE /\ oldest' = push_oldest
            /\ full' = push_full
            /\ UNCHANGED panicked
    /\ ret' = Unit
    /\ adapter_log' = <<>>
    /\ UNCHANGED capacity

\* The packet counts the source of frames hands over next: the count after
\* the last one (the stream as it should be), or a jump to 0, to u64::MAX - 1
\* or to u64::MAX.
NextCounts ==
    {U64FromNat(0), <<LimbBase - 2, LimbBase - 1, LimbBase - 1, LimbBase - 1>>, U64_MAX}
        \cup (IF pushed # <<>> /\ ~Add1Overflows(pushed[Len(pushed)].count)
              THEN {WrappingAdd1(pushed[Len(pushed)].count)} ELSE {})

Push ==
    \E count \in NextCounts, overflow_checks \in BOOLEAN :
        push(Payload(count), overflow_checks)

(***************************************************************************)
(* DumpRing::consecutive_views                                             *)
(***************************************************************************)
\* A view of slots [start, stop) of axis 0 of the buffer (no copy).
Slice(start, stop) == [base |-> "buffer", start |-> start, stop |-> stop]

\* ArrayView4::from_shape((0, 2, CHANNELS, 2), &[]): no slot, of no buffer.
EmptyView == [base |-> "empty", start |-> 0, stop |-> 0]

\* a.len_of(Axis(0))
len_of_axis0(v) == v.stop - v.start

\* The slots a view shows, in order.
ViewSlots(v) ==
    IF v.base = "buffer"
    THEN [i \in 1..(v.stop - v.start) |-> buffer[v.start + i]]
    ELSE <<>>

\* Mutant: the two regions of a full ring the other way round.
consecutive_views_swapped ==
    IF ~full
    THEN <<Slice(0, write_ptr), EmptyView>>
    ELSE <<Slice(0, write_ptr), Slice(write_ptr, Len(buffer))>>

\* Mutant: a full ring is handed over from slot 0, as one region.
consecutive_views_unsplit ==
    IF ~full
    THEN <<Slice(0, write_ptr), EmptyView>>
    ELSE <<Slice(0, Len(buffer)), Slice(0, 0)>>

consecutive_views ==
    IF ~full
    THEN <<Slice(0, write_ptr), EmptyView>>
    ELSE <<Slice(write_ptr, Len(buffer)), Slice(0, write_ptr)>>

\* Mutant: the call hands the regions over and empties the ring.
ConsecutiveViewsDraining ==
    /\ ~panicked
    /\ ret' = Views(consecutive_views[1], consecutive_views[2])
    /\ write_ptr' = 0
    /\ full' = FALSE
    /\ oldest' = None
    /\ UNCHANGED <<capacity, buffer, panicked, pushed, adapter_log>>

\* A call of consecutive_views(&self).
ConsecutiveViews ==
    /\ ~panicked
    /\ ret' = Views(consecutive_views[1], consecutive_views[2])
    /\ UNCHANGED <<capacity, buffer, write_ptr, oldest, full, panicked, pushed, adapter_log>>

(***************************************************************************)
(* DumpRing::dump and the netcdf adapter                                   *)
(***************************************************************************)
\* One call on the adapter: the operation, the dimension or variable it is
\* made on, and its arguments.
Call(op, on, args) == [op |-> op, on |-> on, args |-> args]

\* voltages.put(extents, view): the extents along the time axis as the
\* half-open range [lo, hi) they select of a "time" dimension of `time_len`
\* slots, and the view handed over with the slots it shows.
PutCall(lo, hi, view) ==
    Call("put", "voltages", <<lo, hi, view, ViewSlots(view)>>)

\* Mutant: the length of the wrong axis.
dump_a_len_axis1(a) == 2

\* let a_len = a.len_of(Axis(0));
dump_a_len(a) == len_of_axis0(a)

\* The adapter calls of dump(chunk_size), in program order (each is followed
\* by `?`).
dump_calls(chunk_size) ==
    LET a == consecutive_views[1]
        b == consecutive_views[2]
        a_len == dump_a_len(a)
    IN  << Call("create", "file", <<"test.nc">>),
           Call("add_dimension", "time", <<capacity>>),
           Call("add_dimension", "pol", <<2>>),
           Call("add_dimension", "freq", <<CHANNELS>>),
           Call("add_dimension", "reim", <<2>>),
           Call("add_variable", "time", <<"f64", <<"time">>>>),
           Call("put_attribute", "time", <<"units", "Days">>),
           Call("put_attribute", "time", <<"long_name", "TAI days since the MJD Epoch">>),
           Call("add_string_variable", "pol", <<<<"pol">>>>),
           Call("put_attribute", "pol", <<"long_name", "Polarization">>),
           Call("put_string", "pol", <<"a", 0>>),
           Call("put_string", "pol", <<"b", 1>>),
           Call("add_variable", "freq", <<"f64", <<"freq">>>>),
           Call("put_attribute", "freq", <<"units", "Megahertz">>),
           Call("put_attribute", "freq", <<"long_name", "Frequency">>),
           Call("add_string_variable", "reim", <<<<"reim">>>>),
           Call("put_attribute", "reim", <<"long_name", "Complex">>),
           Call("put_string", "reim", <<"real", 0>>),
           Call("put_string", "reim", <<"imaginary", 1>>),
           Call("add_variable", "voltages", <<"i8", <<"time", "pol", "freq", "reim">>>>),
           Call("put_attribute", "voltages", <<"long_name", "Channelized Voltages">>),
           Call("put_attribute", "voltages", <<"units", "Volts">>),
           Call("set_chunking", "voltages", <<chunk_size, 2, CHANNELS, 2>>),
           PutCall(0, a_len, a),
           PutCall(a_len, capacity, b) >>

\* What the adapter answers to call number i when `failing` is the call it
\* fails: an error of its own that names the call, or success.
AdapterAnswer(calls, failing, i) ==
    IF i = failing THEN Err([step |-> i, op |-> calls[i].op, on |-> calls[i].on])
    ELSE Ok

\* Mutant: the answer of the adapter is dropped and the next call made.
RECURSIVE dump_run_ignoring(_, _, _, _)
dump_run_ignoring(calls, failing, i, log) ==
    IF i > Len(calls) THEN [ret |-> Ok, log |-> log]
    ELSE dump_run_ignoring(calls, failing, i + 1,
             Append(log, [call |-> calls[i], answer |-> AdapterAnswer(calls, failing, i)]))

\* The body of dump from call i on: `call?` returns the adapter's error to the
\* caller at once, and Ok(()) follows the last call.
RECURSIVE dump_run(_, _, _, _)
dump_run(calls, failing, i, log) ==
    IF i > Len(calls) THEN [ret |-> Ok, log |-> log]
    ELSE LET answer == AdapterAnswer(calls, failing, i)
             log1 == Append(log, [call |-> calls[i], answer |-> answer])
         IN  IF answer.kind = "err"
             THEN [ret |-> answer, log |-> log1]
             ELSE dump_run(calls, failing, i + 1, log1)

\* dump(&self, chunk_size); `failing` is the adapter call that fails, 0 when
\* none does.
dump(chunk_size, failing) ==
    /\ ~panicked
    /\ LET run == dump_run(dump_calls(chunk_size), failing, 1, <<>>)
       IN  /\ ret' = [kind |-> "dump", chunk_size |-> chunk_size, result |-> run.ret]
           /\ adapter_log' = run.log
    /\ UNCHANGED <<capacity, buffer, write_ptr, oldest, full, panicked, pushed>>

Dump ==
    \E chunk_size \in 1..MaxChunk, failing \in 0..Len(dump_calls(1)) :
        dump(chunk_size, failing)

(***************************************************************************)
(* The system                                                              *)
(***************************************************************************)
\* The ring under any stream of frames.
Next == Push \/ ConsecutiveViews

Spec == Init /\ [][Next]_vars

\* The export: the ring is fed the stream as it should be (counts 0, 1, 2,
\* ...) and dumped at any point, with any adapter call failing.
StreamCounts ==
    IF pushed = <<>> THEN {U64FromNat(0)}
    ELSE {WrappingAdd1(pushed[Len(pushed)].count)}

PushStream ==
    \E count \in StreamCounts, overflow_checks \in BOOLEAN :
        push(Payload(count), overflow_checks)

NextDump == PushStream \/ Dump

SpecDump == Init /\ [][NextDump]_vars

(***************************************************************************)
(* Properties                                                              *)
(***************************************************************************)
\* The tensor a frame stands for, read from its fields: polarization A then
\* B, each channel's real part then its imaginary part.
FrameData(pl) ==
    [idx \in TensorIdx |->
        LET c == (IF idx[1] = 0 THEN pl.pol_a ELSE pl.pol_b)[idx[2] + 1]
        IN  IF idx[3] = 0 THEN c.re ELSE c.im]

\* The channel data of a frame as one contiguous region of 4 * CHANNELS
\* samples, by offset (from 0).
ChannelRegion(pl) ==
    [o \in 0..(4 * CHANNELS - 1) |->
        LET c == (IF o < 2 * CHANNELS THEN pl.pol_a ELSE pl.pol_b)
                     [((o % (2 * CHANNELS)) \div 2) + 1]
        IN  IF o % 2 = 0 THEN c.re ELSE c.im]

\* The first region followed by the second.
Chronological == ViewSlots(consecutive_views[1]) \o ViewSlots(consecutive_views[2])

\* The frames of h, from the i-th on, as the slots they fill.
FramesFrom(h, i) == [j \in 1..(Len(h) - i + 1) |-> FrameData(h[i + j - 1])]

\* The counts of h are s, s + 1, s + 2, ... with no wrap.
Contiguous(h) ==
    \A i \in 1..(Len(h) - 1) :
        /\ ~Add1Overflows(h[i].count)
        /\ h[i + 1].count = WrappingAdd1(h[i].count)

\* x + n for a natural n.
RECURSIVE U64AddNat(_, _)
U64AddNat(x, n) == IF n = 0 THEN x ELSE U64AddNat(WrappingAdd1(x), n - 1)

\* C1: after k > capacity pushes of frames with contiguous counts, the first
\* region followed by the second holds exactly the last `capacity` frames
\* pushed, oldest first, and write_ptr = k mod capacity.
C1_WrapCorrectness ==
    (Len(pushed) > capacity /\ Contiguous(pushed)) =>
        /\ Chronological = FramesFrom(pushed, Len(pushed) - capacity + 1)
        /\ write_ptr = Len(pushed) % capacity

\* C1 witness: capacity 4 after the counts 0..5: the ring has wrapped and
\* both regions hold frames.
C1_Witness ==
    /\ capacity = 4
    /\ Len(pushed) = 6
    /\ \A i \in 1..6 : pushed[i].count = U64FromNat(i - 1)
    /\ write_ptr = 2
    /\ len_of_axis0(consecutive_views[1]) = 2
    /\ len_of_axis0(consecutive_views[2]) = 2

\* C2: after the frames with counts 0..capacity have been pushed into a new
\* ring (exactly `capacity` of them), the two regions one after the other
\* are the frames in the order pushed.
C2_RoundTrip ==
    (/\ Len(pushed) = capacity
     /\ \A i \in 1..Len(pushed) : pushed[i].count = U64FromNat(i - 1)) =>
        Chronological = FramesFrom(pushed, 1)

\* C3: after k pushes, 1 <= k <= capacity, with contiguous counts from s, the
\* two regions hold k slots in all, oldest = s and full = (k = capacity).
C3_FillingUp ==
    (Len(pushed) >= 1 /\ Len(pushed) <= capacity /\ Contiguous(pushed)) =>
        /\ Len(Chronological) = Len(pushed)
        /\ oldest = Some(pushed[1].count)
        /\ full = (Len(pushed) = capacity)

\* C4: after k > capacity pushes with counts s, s+1, ..., s+k-1,
\* oldest = s + (k - capacity) and full is true.
C4_OldestAfterWrap ==
    (Len(pushed) > capacity /\ Contiguous(pushed)) =>
        /\ oldest = Some(U64AddNat(pushed[1].count, Len(pushed) - capacity))
        /\ full

\* C5: with capacity 1, after exactly one push: full, write_ptr = 0, the
\* first region is the single slot and the second is empty.
C5_CapacityOne ==
    (capacity = 1 /\ Len(pushed) = 1) =>
        /\ full
        /\ write_ptr = 0
        /\ len_of_axis0(consecutive_views[1]) = 1
        /\ len_of_axis0(consecutive_views[2]) = 0

\* C6: push never fails: no push ends in a panic (an abort on overflow).
C6_PushNeverFails == ~panicked

\* C7: when an adapter call of dump answers with a failure, it is the last
\* call dump makes (nothing after it, no second try) and dump returns that
\* very failure; and dump returns no failure the adapter did not report.
C7_FailureAborts ==
    /\ \A i \in 1..Len(adapter_log) :
          adapter_log[i].answer.kind = "err" =>
              /\ i = Len(adapter_log)
              /\ ret.kind = "dump"
              /\ ret.result = adapter_log[i].answer
    /\ (ret.kind = "dump" /\ ret.result.kind = "err") =>
          /\ adapter_log # <<>>
          /\ adapter_log[Len(adapter_log)].answer = ret.result

\* C7 witness: a dump that failed at an attribute of the third variable,
\* after 13 calls that succeeded.
C7_Witness ==
    /\ ret.kind = "dump"
    /\ ret.result.kind = "err"
    /\ Len(adapter_log) = 14
    /\ adapter_log[14].answer.kind = "err"
    /\ adapter_log[14].call.op = "put_attribute"

\* The least element of a non-empty set of numbers.
Min(S) == CHOOSE x \in S : \A y \in S : x <= y

\* The calls of the log with operation op on `on`.
LoggedCalls(op, on) ==
    SelectSeq(adapter_log, LAMBDA e : e.call.op = op /\ e.call.on = on)

\* The positions of the log with operation op on `on`.
LoggedAt(op, on) ==
    {i \in 1..Len(adapter_log) :
        adapter_log[i].call.op = op /\ adapter_log[i].call.on = on}

\* C8: in every dump, the first region is written from time offset 0 and the
\* second from time offset length(first region), with no gap and no overlap,
\* and by then the "time" dimension has been added with length capacity and
\* the chunking set with the caller's chunk_size along the time axis.
C8_OffsetPlacement ==
    LET puts == LoggedCalls("put", "voltages")
        a == consecutive_views[1]
        b == consecutive_views[2]
    IN  /\ Len(puts) <= 2
        /\ Len(puts) >= 1 =>
              /\ puts[1].call.args[1] = 0
              /\ puts[1].call.args[2] = len_of_axis0(a)
              /\ puts[1].call.args[3] = a
              /\ puts[1].call.args[4] = ViewSlots(a)
              /\ \E i \in LoggedAt("add_dimension", "time") :
                    /\ adapter_log[i].call.args = <<capacity>>
                    /\ i < Min(LoggedAt("put", "voltages"))
              /\ \E i \in LoggedAt("set_chunking", "voltages") :
                    /\ adapter_log[i].call.args[1] = ret.chunk_size
                    /\ i < Min(LoggedAt("put", "voltages"))
        /\ Len(puts) = 2 =>
              /\ puts[2].call.args[1] = len_of_axis0(a)
              /\ puts[2].call.args[1] = puts[1].call.args[2]
              /\ puts[2].call.args[3] = b
              /\ puts[2].call.args[4] = ViewSlots(b)

\* C8 witness: a dump with chunk_size 2 of a wrapped ring that made both
\* writes, the second from an offset other than 0, of a region with frames.
C8_Witness ==
    /\ ret.kind = "dump"
    /\ ret.chunk_size = 2
    /\ ret.result.kind = "ok"
    /\ Len(LoggedCalls("put", "voltages")) = 2
    /\ full
    /\ write_ptr > 0
    /\ LoggedCalls("put", "voltages")[2].call.args[1] > 0
    /\ LoggedCalls("put", "voltages")[2].call.args[4] # <<>>

\* C9: for every frame pushed, the element of its view at (pol, channel,
\* component) is the sample at offset pol*2*CHANNELS + channel*2 + component
\* of the frame's channel data (A before B, real before imaginary).
C9_FrameView ==
    \A i \in 1..Len(pushed) : \A idx \in TensorIdx :
        as_ndarray_data_view(pushed[i])[idx]
            = ChannelRegion(pushed[i])[idx[1] * 2 * CHANNELS + idx[2] * 2 + idx[3]]

\* C9 witness: a frame has been viewed and stored whose samples differ at
\* every index, some of them negative.
C9_Witness ==
    /\ Len(pushed) >= 1
    /\ buffer[1] = as_ndarray_data_view(pushed[1])
    /\ Cardinality({buffer[1][idx] : idx \in TensorIdx}) = 4 * CHANNELS
    /\ \E idx \in TensorIdx : buffer[1][idx] < 0

\* C10: a step that pushes nothing leaves capacity, buffer, write_ptr, oldest
\* and full as they were, and a call of consecutive_views that follows
\* another with no push between returns the same regions.
C10_SplitterIdempotent ==
    [][pushed' = pushed =>
          /\ ring' = ring
          /\ (ret.kind = "views" /\ ret'.kind = "views") => ret' = ret]_vars

\* C10 witness: consecutive_views has returned the two regions of a wrapped
\* ring.
C10_Witness ==
    /\ ret.kind = "views"
    /\ full
    /\ write_ptr > 0
    /\ len_of_axis0(ret.a) > 0
    /\ len_of_axis0(ret.b) > 0

\* C11: whenever full is true, the ring holds exactly `capacity` frames, one
\* per slot (the last `capacity` frames pushed), and the slot at write_ptr
\* holds the oldest of them, the one the next push overwrites.
C11_FullHoldsCapacity ==
    full =>
        /\ Len(pushed) >= capacity
        /\ Len(Chronological) = capacity
        /\ Chronological = FramesFrom(pushed, Len(pushed) - capacity + 1)
        /\ buffer[write_ptr + 1] = FrameData(pushed[Len(pushed) - capacity + 1])

\* C11 witness: a full ring of more than one slot, past its first lap, with
\* the pointer inside the buffer.
C11_Witness ==
    /\ full
    /\ capacity = 3
    /\ Len(pushed) = 5
    /\ write_ptr = 2
    /\ buffer[3] = FrameData(pushed[3])

\* C12: full becomes true at the push on which write_ptr wraps from
\* capacity - 1 to 0 for the first time and at no other, and once true it
\* stays true.
C12_FullAtFirstWrap ==
    [][/\ full => full'
       /\ (~full /\ pushed' # pushed /\ write_ptr = capacity - 1) => full'
       /\ (~full /\ full') =>
             (pushed' # pushed /\ write_ptr = capacity - 1 /\ write_ptr' = 0)]_vars

\* C13: write_ptr is in [0, capacity), and after n pushes it is n mod
\* capacity (each push moves it by one, modulo capacity).
C13_WritePtr ==
    /\ write_ptr \in 0..(capacity - 1)
    /\ write_ptr = Len(pushed) % capacity

\* C13 witness: the pointer has wrapped and moved on (capacity 3, 4 pushes).
C13_Witness ==
    /\ capacity = 3
    /\ Len(pushed) = 4
    /\ write_ptr = 1

\* C14: oldest is None exactly when the ring holds no frame, that is when
\* both regions of consecutive_views are empty.
C14_OldestNoneIffEmpty ==
    is_none(oldest) <=>
        (/\ len_of_axis0(consecutive_views[1]) = 0
         /\ len_of_axis0(consecutive_views[2]) = 0)

C16_FirstViewHasData ==
    /\ len_of_axis0(consecutive_views[1]) >= 1
    /\ len_of_axis0(consecutive_views[2])
           = capacity - len_of_axis0(consecutive_views[1])

\* C17: a push writes the frame's data into the slot at the write_ptr it
\* found and into no other slot, and leaves capacity (and the number of
\* slots) as it was.
C17_PushFrame ==
    [][pushed' # pushed =>
          /\ capacity' = capacity
          /\ Len(buffer') = capacity
          /\ buffer' = [buffer EXCEPT
                           ![write_ptr + 1] = FrameData(pushed'[Len(pushed')])]]_vars

\* C17 witness: a ring of 3 slots on its second lap: slot 0 holds the 4th
\* frame, slots 1 and 2 still the 2nd and 3rd.
C17_Witness ==
    /\ capacity = 3
    /\ Len(pushed) = 4
    /\ buffer[1] = FrameData(pushed[4])
    /\ buffer[2] = FrameData(pushed[2])
    /\ buffer[3] = FrameData(pushed[3])
    /\ buffer[1] # FrameData(pushed[1])

\* C18: a push that finds the ring full sets oldest to its value plus exactly
\* 1, whatever count the frame has; one that finds oldest None sets it to the
\* frame's count; any other push leaves oldest as it was; and no push is
\* rejected.
C18_OldestPolicy ==
    [][pushed' # pushed =>
          /\ ~panicked'
          /\ IF is_none(oldest)
             THEN oldest' = Some(pushed'[Len(pushed')].count)
             ELSE IF full
             THEN /\ ~Add1Overflows(unwrap(oldest))
                  /\ oldest' = Some(WrappingAdd1(unwrap(oldest)))
             ELSE oldest' = oldest]_vars

\* C19: in every dump, each data write targets as many time slots as the
\* region handed to it holds: the first [0, length(first region)), the second
\* [length(first region), capacity).
C19_WriteExtentsMatch ==
    \A i \in LoggedAt("put", "voltages") :
        adapter_log[i].call.args[2] - adapter_log[i].call.args[1]
            = Len(adapter_log[i].call.args[4])

====
